---- MODULE Spec2Model ----
(***************************************************************************)
(* A model of incode (src/src/index.ts): the directive tokenizer, the      *)
(* directive parser, the scope resolver and inject.                        *)
(*                                                                         *)
(* Text is a sequence of characters (one-character strings); offsets are   *)
(* the 0-based offsets of the source.  JSON values are tagged records      *)
(* [t, v].  Objects are never mutated by the source (an Assign builds a    *)
(* new object with a spread, a Merge merges into a fresh {}), so data is   *)
(* modelled by value.                                                      *)
(***************************************************************************)
EXTENDS Integers, Sequences, FiniteSets, TLC

VARIABLES
  text,        \* the text argument of the call in progress
  data0,       \* the data argument of the call in progress
  api,         \* "extractRegions" or "inject": the entry point called
  lastIndex,   \* directiveMatcher.lastIndex (the RegExp has the g flag)
  pc,          \* where the call is: "tokenize", "resolve", "render", "returned", "thrown"
  directives,  \* extractDirectives' local list
  stack,       \* the frames of enterScope / enterEmit, innermost last
  regions,     \* extractRegions' region list
  error,       \* the error thrown to the caller, or NoError
  r,           \* inject's output so far
  start,       \* inject's cursor into text
  rendered,    \* the regions handed to the render callback so far
  results,     \* history: what the render callback returned for each of them
  calls,       \* calls made with this matcher, the one in progress included
  trace        \* history: the directive read at each resolver step, and by which frame

vars == <<text, data0, api, lastIndex, pc, directives, stack, regions, error,
          r, start, rendered, results, calls, trace>>

-----------------------------------------------------------------------------
(* Characters and strings *)

LF == "\n"
CR == "\r"
TAB == "\t"
SP == " "

\* ECMAScript LineTerminator, as far as the text alphabet goes
IsLineTerminator(c) == c \in {LF, CR}

\* ECMAScript \s, as far as the text alphabet goes
IsWhiteSpace(c) == c \in {SP, TAB, LF, CR}

\* s.charAt(i), 0-based
CharAt(s, i) == s[i + 1]

Min(a, b) == IF a < b THEN a ELSE b
Max(a, b) == IF a > b THEN a ELSE b

\* String.prototype.substring(a, b): clamps to [0, length], swaps when a > b
Substring(s, a, b) ==
  LET ca == Max(0, Min(a, Len(s)))
      cb == Max(0, Min(b, Len(s)))
      lo == Min(ca, cb)
      hi == Max(ca, cb)
  IN  SubSeq(s, lo + 1, hi)

\* String.prototype.indexOf(c): the first 0-based index of c, or -1
IndexOf(s, c) ==
  IF \E i \in 1..Len(s) : s[i] = c
    THEN (CHOOSE i \in 1..Len(s) : s[i] = c /\ \A j \in 1..(i - 1) : s[j] # c) - 1
    ELSE -1

\* String.prototype.lastIndexOf(c): the last 0-based index of c, or -1
LastIndexOf(s, c) ==
  IF \E i \in 1..Len(s) : s[i] = c
    THEN (CHOOSE i \in 1..Len(s) : s[i] = c /\ \A j \in (i + 1)..Len(s) : s[j] # c) - 1
    ELSE -1

-----------------------------------------------------------------------------
(* JSON values and JSON.parse *)

JNull == [t |-> "null", v |-> 0]
JBool(b) == [t |-> "bool", v |-> b]
JNum(n) == [t |-> "num", v |-> n]
JStr(s) == [t |-> "str", v |-> s]
JArr(a) == [t |-> "arr", v |-> a]
JObj(f) == [t |-> "obj", v |-> f]

EmptyObject == JObj(<<>>)

Digits == <<"0", "1", "2", "3", "4", "5", "6", "7", "8", "9">>
IsDigit(c) == \E d \in 1..10 : Digits[d] = c
DigitValue(c) == (CHOOSE d \in 1..10 : Digits[d] = c) - 1

\* the property name of array index i (String(i)), for the indices the model meets
IndexKey(i) == <<Digits[i + 1]>>

\* the parser's result: a value and the offset after it, or a failure
JOk(v, i) == [ok |-> TRUE, v |-> v, i |-> i]
JFail == [ok |-> FALSE, v |-> JNull, i |-> 0]

RECURSIVE SkipWs(_, _)
SkipWs(s, i) ==
  IF i < Len(s) /\ IsWhiteSpace(CharAt(s, i)) THEN SkipWs(s, i + 1) ELSE i

\* a literal word (null, true, false) at offset i
HasWord(s, i, w) == i + Len(w) <= Len(s) /\ SubSeq(s, i + 1, i + Len(w)) = w

RECURSIVE JsonDigits(_, _, _)
JsonDigits(s, i, acc) ==
  IF i < Len(s) /\ IsDigit(CharAt(s, i))
    THEN JsonDigits(s, i + 1, 10 * acc + DigitValue(CharAt(s, i)))
    ELSE JOk(JNum(acc), i)

\* a number: 0, or a non-zero digit followed by digits
JsonNumber(s, i) ==
  IF CharAt(s, i) = "0" THEN JOk(JNum(0), i + 1) ELSE JsonDigits(s, i, 0)

\* a string: a quote, characters other than a quote, a quote (no escapes in the alphabet)
JsonString(s, i) ==
  LET rest == SubSeq(s, i + 2, Len(s))
      q == IndexOf(rest, "\"")
  IN  IF q = -1 \/ \E j \in 1..q : rest[j] \in {LF, CR, TAB, "\\"}
        THEN JFail
        ELSE JOk(JStr(SubSeq(rest, 1, q)), i + 1 + q + 1)

RECURSIVE JsonValue(_, _)
RECURSIVE JsonElements(_, _, _)
RECURSIVE JsonMembers(_, _, _)

\* the elements of an array after "[" or after a ",": value, then "," or "]"
JsonElements(s, i, acc) ==
  LET e == JsonValue(s, SkipWs(s, i))
      j == SkipWs(s, e.i)
  IN  IF ~e.ok \/ j >= Len(s) THEN JFail
      ELSE IF CharAt(s, j) = "]" THEN JOk(JArr(Append(acc, e.v)), j + 1)
      ELSE IF CharAt(s, j) = "," THEN JsonElements(s, j + 1, Append(acc, e.v))
      ELSE JFail

\* the members of an object after "{" or after a ",": string ":" value, then "," or "}"
JsonMembers(s, i, acc) ==
  LET ki == SkipWs(s, i)
      k == IF ki < Len(s) /\ CharAt(s, ki) = "\"" THEN JsonString(s, ki) ELSE JFail
      ci == SkipWs(s, k.i)
      m == IF k.ok /\ ci < Len(s) /\ CharAt(s, ci) = ":"
             THEN JsonValue(s, SkipWs(s, ci + 1))
             ELSE JFail
      j == SkipWs(s, m.i)
      \* a repeated key keeps its place and takes the later value
      f == (k.v.v :> m.v) @@ acc
  IN  IF ~m.ok \/ j >= Len(s) THEN JFail
      ELSE IF CharAt(s, j) = "}" THEN JOk(JObj(f), j + 1)
      ELSE IF CharAt(s, j) = "," THEN JsonMembers(s, j + 1, f)
      ELSE JFail

JsonValue(s, i) ==
  IF i >= Len(s) THEN JFail
  ELSE LET c == CharAt(s, i) IN
    CASE c = "{" ->
           LET j == SkipWs(s, i + 1)
           IN  IF j < Len(s) /\ CharAt(s, j) = "}"
                 THEN JOk(EmptyObject, j + 1)
                 ELSE JsonMembers(s, i + 1, <<>>)
      [] c = "[" ->
           LET j == SkipWs(s, i + 1)
           IN  IF j < Len(s) /\ CharAt(s, j) = "]"
                 THEN JOk(JArr(<<>>), j + 1)
                 ELSE JsonElements(s, i + 1, <<>>)
      [] c = "\"" -> JsonString(s, i)
      [] IsDigit(c) -> JsonNumber(s, i)
      [] HasWord(s, i, <<"n", "u", "l", "l">>) -> JOk(JNull, i + 4)
      [] HasWord(s, i, <<"t", "r", "u", "e">>) -> JOk(JBool(TRUE), i + 4)
      [] HasWord(s, i, <<"f", "a", "l", "s", "e">>) -> JOk(JBool(FALSE), i + 5)
      [] OTHER -> JFail

\* JSON.parse(s): one value with optional white space around it, or a SyntaxError
JSONparse(s) ==
  LET p == JsonValue(s, SkipWs(s, 0))
  IN  IF p.ok /\ SkipWs(s, p.i) = Len(s) THEN p ELSE JFail

-----------------------------------------------------------------------------
(* Directives and the directive parser *)

Begin == 0
End == 1
Assign == 2
Merge == 3
Emit == 4

\* an InvalidSourceError's position when none was given (null)
NoPosition == [line |-> 0, col |-> 0]

NoError == [kind |-> "none", msg |-> "", position |-> NoPosition, prefixed |-> FALSE]

\* new InvalidDirectiveError(msg) / new InvalidRegionError(msg, position): the
\* constructor stores the position and leaves the message as given
InvalidSourceError(kind, msg, position) ==
  [kind |-> kind, msg |-> msg, position |-> position, prefixed |-> FALSE]

\* e.setPosition(position): stores the position and prefixes the message with it
setPosition(e, position) == [e EXCEPT !.position = position, !.prefixed = TRUE]

\* what a function that may throw hands back: a value, or the error thrown
Return(type, arg) == [ok |-> TRUE, type |-> type, arg |-> arg, msg |-> ""]
Throw(msg) == [ok |-> FALSE, type |-> -1, arg |-> JNull, msg |-> msg]

\* directiveTypeFromString, were a name it does not know taken for begin
directiveTypeFromStringLoose(s) ==
  CASE s = <<"e", "n", "d">> -> Return(End, JNull)
    [] s = <<"a", "s", "s", "i", "g", "n">> -> Return(Assign, JNull)
    [] s = <<"m", "e", "r", "g", "e">> -> Return(Merge, JNull)
    [] s = <<"e", "m", "i", "t">> -> Return(Emit, JNull)
    [] OTHER -> Return(Begin, JNull)

directiveTypeFromString(s) ==
  CASE s = <<"b", "e", "g", "i", "n">> -> Return(Begin, JNull)
    [] s = <<"e", "n", "d">> -> Return(End, JNull)
    [] s = <<"a", "s", "s", "i", "g", "n">> -> Return(Assign, JNull)
    [] s = <<"m", "e", "r", "g", "e">> -> Return(Merge, JNull)
    [] s = <<"e", "m", "i", "t">> -> Return(Emit, JNull)
    [] OTHER -> Throw("Invalid directive type")

\* typeof arg !== "object" || arg === null
NotAnObjectType(arg) == arg.t \notin {"obj", "arr", "null"} \/ arg.t = "null"

parseDirective(s) ==
  LET pStart == IndexOf(s, "(") IN
  IF pStart # -1
    THEN
      LET ty == directiveTypeFromString(Substring(s, 0, pStart))
          pEnd == LastIndexOf(s, ")")
          sArg == Substring(s, pStart + 1, pEnd)
          one == JSONparse(sArg)
          many == JSONparse(<<"[">> \o sArg \o <<"]">>)
      IN  IF ~ty.ok THEN ty
          ELSE IF ty.type \in {Begin, End}
            THEN Throw("directive should not have arguments")
          ELSE IF pEnd = -1
            THEN Throw("Unable to find closing parenthesis")
          ELSE IF ty.type \in {Assign, Merge}
            THEN IF ~one.ok THEN Throw("Unable to parse directive argument")
                 ELSE IF NotAnObjectType(one.v)
                   THEN Throw("Argument should have an object type")
                 ELSE Return(ty.type, one.v)
          ELSE IF ~many.ok THEN Throw("Unable to parse directive argument")
          ELSE Return(ty.type, many.v)
    ELSE
      LET ty == directiveTypeFromString(s)
      IN  IF ~ty.ok THEN ty
          ELSE IF ty.type \in {Assign, Merge, Emit}
            THEN Throw("directive should have arguments")
          ELSE Return(ty.type, JNull)

-----------------------------------------------------------------------------
(* Positions *)

\* the for loop from i on, with line and col as they are at i, taken a line at
\* a time: every character in front of the next line feed does col++, the line
\* feed does line++ and col = 1; with no line feed left in front of offset the
\* characters that remain each do col++
RECURSIVE PositionLoop(_, _, _, _, _)
PositionLoop(s, offset, i, line, col) ==
  LET feeds == {j \in i..(offset - 1) : CharAt(s, j) = LF}
      next == CHOOSE j \in feeds : \A k \in feeds : j <= k
  IN  IF i >= offset THEN [line |-> line, col |-> col]
      ELSE IF feeds = {} THEN [line |-> line, col |-> col + (offset - i)]
      ELSE PositionLoop(s, offset, next + 1, line + 1, 1)

\* an offset past the text throws a plain Error; every call site passes the
\* start or the end of a match, which lies within the text
positionFromOffset(s, offset) == PositionLoop(s, Min(offset, Len(s)), 0, 1, 1)

-----------------------------------------------------------------------------
(* The directive matcher: /^[ \t]*(\/\/\s+<prefix>:(.+))$/gm *)

\* the prefix given to createDirectiveMatcher
Prefix == <<"i">>

RECURSIVE SkipBlanks(_, _)
SkipBlanks(s, i) ==
  IF i < Len(s) /\ CharAt(s, i) \in {SP, TAB} THEN SkipBlanks(s, i + 1) ELSE i

RECURSIVE SkipLine(_, _)
SkipLine(s, i) ==
  IF i < Len(s) /\ ~IsLineTerminator(CharAt(s, i)) THEN SkipLine(s, i + 1) ELSE i

NoMatch == [found |-> FALSE, index |-> 0, end |-> 0, comment |-> 0, body |-> 0]

\* the pattern tried at offset p: ^ (m flag), [ \t]*, "//", \s+, the prefix, ":",
\* (.+) up to $ (m flag).  No step can give back a character the next one takes,
\* so the greedy match is the only one.
MatchAt(s, p) ==
  LET atLineStart == p = 0 \/ IsLineTerminator(CharAt(s, p - 1))
      c == SkipBlanks(s, p)
      slashes == c + 2 <= Len(s) /\ CharAt(s, c) = "/" /\ CharAt(s, c + 1) = "/"
      w == SkipWs(s, c + 2)
      colon == w + Len(Prefix)
      named == /\ w > c + 2
               /\ colon < Len(s)
               /\ SubSeq(s, w + 1, colon) = Prefix
               /\ CharAt(s, colon) = ":"
      e == SkipLine(s, colon + 1)
  IN  IF atLineStart /\ slashes /\ named /\ e > colon + 1
        THEN [found |-> TRUE, index |-> p, end |-> e, comment |-> c, body |-> colon + 1]
        ELSE NoMatch

\* the first offset at or after p where the pattern matches.  The pattern
\* begins with ^, so behind p it can match only where a line starts: the search
\* goes on at the next such offset
RECURSIVE FindMatch(_, _)
FindMatch(s, p) ==
  LET lineStarts == {q \in (p + 1)..Len(s) : IsLineTerminator(CharAt(s, q - 1))}
      next == CHOOSE q \in lineStarts : \A k \in lineStarts : q <= k
  IN  IF p > Len(s) THEN NoMatch
      ELSE IF MatchAt(s, p).found THEN MatchAt(s, p)
      ELSE IF lineStarts = {} THEN NoMatch
      ELSE FindMatch(s, next)

\* RegExp.prototype.exec with the g flag: the first match at or after lastIndex
RegExpExec(s, from) == FindMatch(s, from)

-----------------------------------------------------------------------------
(* Assign ({...data, ...arg}) and Merge (lodash merge({}, data, arg)) *)

\* the own enumerable properties of an object or an array, by name
OwnProps(o) ==
  IF o.t = "arr"
    THEN [k \in {IndexKey(i - 1) : i \in 1..Len(o.v)} |->
            o.v[CHOOSE i \in 1..Len(o.v) : IndexKey(i - 1) = k]]
    ELSE o.v

\* { ...data, ...arg }
SpreadAssign(data, arg) == JObj(OwnProps(arg) @@ OwnProps(data))

\* a property or an element that is not there
Undefined == [t |-> "undefined", v |-> 0]

\* lodash gives an array target named properties when an object is merged into
\* it; that is no JSON value and no input of the model reaches it
Unmodelled == [t |-> "unmodelled", v |-> 0]

RECURSIVE baseMerge(_, _)

\* lodash baseMergeDeep/assignMergeValue: the value key takes in the target
baseMergeDeep(objValue, srcValue) ==
  CASE srcValue.t = "arr" ->
         baseMerge(IF objValue.t = "arr" THEN objValue ELSE JArr(<<>>), srcValue)
    [] srcValue.t = "obj" /\ objValue.t = "arr" -> Unmodelled
    [] srcValue.t = "obj" ->
         baseMerge(IF objValue.t = "obj" THEN objValue ELSE EmptyObject, srcValue)
    [] OTHER -> srcValue

\* lodash baseMerge(object, source): every property of source merged into object
baseMerge(object, source) ==
  IF object.t = "arr"
    THEN LET o == object.v
             s == source.v
         IN  JArr([i \in 1..Max(Len(o), Len(s)) |->
                    IF i <= Len(s)
                      THEN baseMergeDeep(IF i <= Len(o) THEN o[i] ELSE Undefined, s[i])
                      ELSE o[i]])
    ELSE LET o == object.v
             s == OwnProps(source)
         IN  JObj([k \in (DOMAIN o) \cup (DOMAIN s) |->
                    IF k \in DOMAIN s
                      THEN baseMergeDeep(IF k \in DOMAIN o THEN o[k] ELSE Undefined, s[k])
                      ELSE o[k]])

\* merge({}, data, arg)
lodashMerge(data, arg) == baseMerge(baseMerge(EmptyObject, data), arg)

-----------------------------------------------------------------------------
(* The call in progress *)

\* a frame of enterScope or enterEmit: its parameters and locals
ScopeFrame(index, scopes, data) ==
  [fn |-> "enterScope", index |-> index, scopes |-> scopes, data |-> data,
   args |-> JNull, padding |-> <<>>, start |-> 0]

EmitFrame(index, data, args, padding, st) ==
  [fn |-> "enterEmit", index |-> index, scopes |-> 0, data |-> data,
   args |-> args, padding |-> padding, start |-> st]

Top == stack[Len(stack)]

\* the directive the innermost frame's loop reads next (directives[index])
Current == directives[Top.index + 1]

InScope == pc = "resolve" /\ stack # <<>> /\ Top.fn = "enterScope"
InEmit == pc = "resolve" /\ stack # <<>> /\ Top.fn = "enterEmit"

\* the data extractRegions is called with: its caller's argument, and from
\* inject no argument at all, so the default {}
extractRegionsData == IF api = "inject" THEN EmptyObject ELSE data0

\* the innermost frame's index++ and locals after one loop iteration
Advance(frame) == [frame EXCEPT !.index = frame.index + 1]

\* ReturnTo, were data one object shared by caller and callee: the caller goes
\* on with the callee's data
ReturnToLeaking(idx) ==
  IF Len(stack) = 1 THEN <<>>
  ELSE [SubSeq(stack, 1, Len(stack) - 1) EXCEPT
          ![Len(stack) - 1].index = idx, ![Len(stack) - 1].data = Top.data]

\* the stack once the innermost frame has returned idx to its caller
\* (index = enterScope(...) / index = enterEmit(...))
ReturnTo(idx) ==
  IF Len(stack) = 1 THEN <<>>
  ELSE [SubSeq(stack, 1, Len(stack) - 1) EXCEPT ![Len(stack) - 1].index = idx]

\* where the call goes once the outermost enterScope has returned
AfterExtract == IF api = "inject" THEN "render" ELSE "returned"

\* history: the innermost frame reads directives[i]; its depth in the stack and
\* its data as it reads
Consumed(i) ==
  Append(trace, [index |-> i, depth |-> Len(stack), fn |-> Top.fn, data |-> Top.data])

Untouched == UNCHANGED <<text, data0, api, calls, r, start, rendered, results>>

-----------------------------------------------------------------------------
(* extractDirectives: one iteration of the while loop over matcher.exec *)

\* the directive pushed for match m whose body parsed to d
DirectiveOf(m, d) ==
  [type |-> d.type, arg |-> d.arg,
   padding |-> Substring(SubSeq(text, m.index + 1, m.end), 0,
                         (m.end - m.index) - (m.end - m.comment)),
   start |-> m.index, end |-> m.end]

\* extractDirectives, were a body that does not parse the end of the list: the
\* resolver starts on the directives found so far
extractDirectivesUntilInvalid ==
  /\ pc = "tokenize"
  /\ LET m == RegExpExec(text, lastIndex)
         d == parseDirective(SubSeq(text, m.body + 1, m.end))
     IN  IF ~m.found \/ ~d.ok
           THEN /\ lastIndex' = 0
                /\ pc' = "resolve"
                /\ stack' = <<ScopeFrame(0, 0, extractRegionsData)>>
                /\ UNCHANGED <<directives, error>>
         ELSE /\ lastIndex' = m.end
              /\ directives' = Append(directives, DirectiveOf(m, d))
              /\ UNCHANGED <<pc, stack, error>>
  /\ UNCHANGED <<regions, trace>>
  /\ Untouched

\* exec found no match and has reset lastIndex: the loop ends and extractRegions
\* goes on to enterScope(text, regions, directives, 0, 0, data).  A match whose
\* body parses is pushed.  A match whose body does not parse throws: the error
\* gets the match's position and lastIndex stays where exec left it.
extractDirectives ==
  /\ pc = "tokenize"
  /\ LET m == RegExpExec(text, lastIndex)
         d == parseDirective(SubSeq(text, m.body + 1, m.end))
     IN  IF ~m.found
           THEN /\ lastIndex' = 0
                /\ pc' = "resolve"
                /\ stack' = <<ScopeFrame(0, 0, extractRegionsData)>>
                /\ UNCHANGED <<directives, error>>
         ELSE IF d.ok
           THEN /\ lastIndex' = m.end
                /\ directives' = Append(directives, DirectiveOf(m, d))
                /\ UNCHANGED <<pc, stack, error>>
         ELSE /\ lastIndex' = m.end
              /\ error' = setPosition(
                   InvalidSourceError("InvalidDirectiveError", d.msg, NoPosition),
                   positionFromOffset(text, m.index))
              /\ pc' = "thrown"
              /\ UNCHANGED <<directives, stack>>
  /\ UNCHANGED <<regions, trace>>
  /\ Untouched

-----------------------------------------------------------------------------
(* enterScope: one iteration of its while loop, or its end *)

ScopeBegin ==
  /\ InScope
  /\ Top.index < Len(directives)
  /\ Current.type = Begin
  /\ stack' = [stack EXCEPT ![Len(stack)] = Advance(Top)]
                \o <<ScopeFrame(Top.index + 1, Top.scopes + 1, Top.data)>>
  /\ trace' = Consumed(Top.index)
  /\ UNCHANGED <<pc, lastIndex, directives, regions, error>>
  /\ Untouched

\* ScopeEnd, were an End at the root skipped instead of returning
ScopeEndIgnoredAtRoot ==
  /\ InScope
  /\ Top.index < Len(directives)
  /\ Current.type = End
  /\ stack' = IF Len(stack) = 1
                THEN [stack EXCEPT ![1] = Advance(Top)]
                ELSE ReturnTo(Top.index + 1)
  /\ trace' = Consumed(Top.index)
  /\ UNCHANGED <<pc, lastIndex, directives, regions, error>>
  /\ Untouched

ScopeEnd ==
  /\ InScope
  /\ Top.index < Len(directives)
  /\ Current.type = End
  /\ stack' = ReturnTo(Top.index + 1)
  /\ pc' = IF Len(stack) = 1 THEN AfterExtract ELSE pc
  /\ trace' = Consumed(Top.index)
  /\ UNCHANGED <<lastIndex, directives, regions, error>>
  /\ Untouched

\* ScopeAssign, were the argument merged into the data
ScopeAssignMerges ==
  /\ InScope
  /\ Top.index < Len(directives)
  /\ Current.type = Assign
  /\ stack' = [stack EXCEPT ![Len(stack)] =
                 [Advance(Top) EXCEPT !.data = lodashMerge(Top.data, Current.arg)]]
  /\ trace' = Consumed(Top.index)
  /\ UNCHANGED <<pc, lastIndex, directives, regions, error>>
  /\ Untouched

ScopeAssign ==
  /\ InScope
  /\ Top.index < Len(directives)
  /\ Current.type = Assign
  /\ stack' = [stack EXCEPT ![Len(stack)] =
                 [Advance(Top) EXCEPT !.data = SpreadAssign(Top.data, Current.arg)]]
  /\ trace' = Consumed(Top.index)
  /\ UNCHANGED <<pc, lastIndex, directives, regions, error>>
  /\ Untouched

\* ScopeMerge, were the argument laid over the data key by key at the top only
ScopeMergeShallow ==
  /\ InScope
  /\ Top.index < Len(directives)
  /\ Current.type = Merge
  /\ stack' = [stack EXCEPT ![Len(stack)] =
                 [Advance(Top) EXCEPT !.data = SpreadAssign(Top.data, Current.arg)]]
  /\ trace' = Consumed(Top.index)
  /\ UNCHANGED <<pc, lastIndex, directives, regions, error>>
  /\ Untouched

\* ScopeMerge, were the arguments of merge swapped: merge({}, arg, data)
ScopeMergeSwapped ==
  /\ InScope
  /\ Top.index < Len(directives)
  /\ Current.type = Merge
  /\ stack' = [stack EXCEPT ![Len(stack)] =
                 [Advance(Top) EXCEPT !.data = lodashMerge(Current.arg, Top.data)]]
  /\ trace' = Consumed(Top.index)
  /\ UNCHANGED <<pc, lastIndex, directives, regions, error>>
  /\ Untouched

ScopeMerge ==
  /\ InScope
  /\ Top.index < Len(directives)
  /\ Current.type = Merge
  /\ stack' = [stack EXCEPT ![Len(stack)] =
                 [Advance(Top) EXCEPT !.data = lodashMerge(Top.data, Current.arg)]]
  /\ trace' = Consumed(Top.index)
  /\ UNCHANGED <<pc, lastIndex, directives, regions, error>>
  /\ Untouched

\* ScopeEmit, were the region started at the Emit line's start
ScopeEmitFromLineStart ==
  /\ InScope
  /\ Top.index < Len(directives)
  /\ Current.type = Emit
  /\ stack' = [stack EXCEPT ![Len(stack)] = Advance(Top)]
                \o <<EmitFrame(Top.index + 1, Top.data, Current.arg,
                               Current.padding, Current.start)>>
  /\ trace' = Consumed(Top.index)
  /\ UNCHANGED <<pc, lastIndex, directives, regions, error>>
  /\ Untouched

ScopeEmit ==
  /\ InScope
  /\ Top.index < Len(directives)
  /\ Current.type = Emit
  /\ stack' = [stack EXCEPT ![Len(stack)] = Advance(Top)]
                \o <<EmitFrame(Top.index + 1, Top.data, Current.arg,
                               Current.padding, Current.end)>>
  /\ trace' = Consumed(Top.index)
  /\ UNCHANGED <<pc, lastIndex, directives, regions, error>>
  /\ Untouched

\* ScopeUnclosed, were the scopes > 0 check missing: the frame returns index
ScopeUnclosedReturns ==
  /\ InScope
  /\ Top.index >= Len(directives)
  /\ Top.scopes > 0
  /\ stack' = ReturnTo(Top.index)
  /\ pc' = IF Len(stack) = 1 THEN AfterExtract ELSE pc
  /\ UNCHANGED <<lastIndex, directives, regions, error, trace>>
  /\ Untouched

\* the list is exhausted inside a Begin: the error is built without a position
ScopeUnclosed ==
  /\ InScope
  /\ Top.index >= Len(directives)
  /\ Top.scopes > 0
  /\ error' = InvalidSourceError("InvalidRegionError",
                                 "All scopes should end with End directive.", NoPosition)
  /\ pc' = "thrown"
  /\ UNCHANGED <<lastIndex, directives, stack, regions, trace>>
  /\ Untouched

\* the list is exhausted at the root: enterScope returns index
ScopeReturn ==
  /\ InScope
  /\ Top.index >= Len(directives)
  /\ Top.scopes = 0
  /\ stack' = ReturnTo(Top.index)
  /\ pc' = IF Len(stack) = 1 THEN AfterExtract ELSE pc
  /\ UNCHANGED <<lastIndex, directives, regions, error, trace>>
  /\ Untouched

-----------------------------------------------------------------------------
(* enterEmit: one iteration of its while loop, or its end *)

\* EmitEnd, were the region put in front of the list (unshift for push)
EmitEndUnshift ==
  /\ InEmit
  /\ Top.index < Len(directives)
  /\ Current.type = End
  /\ regions' = <<[args |-> Top.args, data |-> Top.data, padding |-> Top.padding,
                   start |-> Top.start, end |-> Current.start]>> \o regions
  /\ stack' = ReturnTo(Top.index + 1)
  /\ trace' = Consumed(Top.index)
  /\ UNCHANGED <<pc, lastIndex, directives, error>>
  /\ Untouched

\* EmitEnd, were the index returned that of the End itself, not the one past it
EmitEndNotConsumed ==
  /\ InEmit
  /\ Top.index < Len(directives)
  /\ Current.type = End
  /\ regions' = Append(regions,
                       [args |-> Top.args, data |-> Top.data, padding |-> Top.padding,
                        start |-> Top.start, end |-> Current.start])
  /\ stack' = ReturnTo(Top.index)
  /\ trace' = Consumed(Top.index)
  /\ UNCHANGED <<pc, lastIndex, directives, error>>
  /\ Untouched

EmitEnd ==
  /\ InEmit
  /\ Top.index < Len(directives)
  /\ Current.type = End
  /\ regions' = Append(regions,
       [args |-> Top.args, data |-> Top.data, padding |-> Top.padding,
        start |-> Top.start, end |-> Current.start])
  /\ stack' = ReturnTo(Top.index + 1)
  /\ trace' = Consumed(Top.index)
  /\ UNCHANGED <<pc, lastIndex, directives, error>>
  /\ Untouched

\* EmitOther, were a directive inside an emit region skipped
EmitOtherSkipped ==
  /\ InEmit
  /\ Top.index < Len(directives)
  /\ Current.type # End
  /\ stack' = [stack EXCEPT ![Len(stack)] = Advance(Top)]
  /\ trace' = Consumed(Top.index)
  /\ UNCHANGED <<pc, lastIndex, directives, regions, error>>
  /\ Untouched

\* EmitOther, were the position that of the Emit directive
EmitOtherAtEmit ==
  /\ InEmit
  /\ Top.index < Len(directives)
  /\ Current.type # End
  /\ error' = InvalidSourceError("InvalidRegionError",
                                 "Emit region should not contain any directives",
                                 positionFromOffset(text, directives[Top.index].start))
  /\ pc' = "thrown"
  /\ trace' = Consumed(Top.index)
  /\ UNCHANGED <<lastIndex, directives, stack, regions>>
  /\ Untouched

EmitOther ==
  /\ InEmit
  /\ Top.index < Len(directives)
  /\ Current.type # End
  /\ error' = InvalidSourceError("InvalidRegionError",
                                 "Emit region should not contain any directives",
                                 positionFromOffset(text, Current.start))
  /\ pc' = "thrown"
  /\ trace' = Consumed(Top.index)
  /\ UNCHANGED <<lastIndex, directives, stack, regions>>
  /\ Untouched

EmitExhausted ==
  /\ InEmit
  /\ Top.index >= Len(directives)
  /\ error' = InvalidSourceError("InvalidRegionError",
                                 "Emit region should end with End directive",
                                 positionFromOffset(text, Top.start))
  /\ pc' = "thrown"
  /\ UNCHANGED <<lastIndex, directives, stack, regions, trace>>
  /\ Untouched

-----------------------------------------------------------------------------
(* inject: the loop over the regions extractRegions returned *)

ensureStringStartsWithNewline(s) ==
  IF Len(s) = 0 THEN <<LF>>
  ELSE IF CharAt(s, 0) # LF THEN <<LF>> \o s
  ELSE s

ensureStringEndsWithNewline(s) ==
  IF Len(s) = 0 THEN <<LF>>
  ELSE IF CharAt(s, Len(s) - 1) # LF THEN s \o <<LF>>
  ELSE s

\* what the render callback may return for a region: nothing, a word, or the
\* text the region holds now
Renderings(region) == {<<>>, <<"z">>, Substring(text, region.start, region.end)}

\* Render, were the cursor left at the region's start: the region's previous
\* content stays in the output
RenderKeepsContent ==
  /\ pc = "render"
  /\ Len(rendered) < Len(regions)
  /\ LET region == regions[Len(rendered) + 1]
     IN  /\ \E s \in Renderings(region) :
               /\ r' = r \o Substring(text, start, region.start)
                         \o ensureStringStartsWithNewline(ensureStringEndsWithNewline(s))
               /\ results' = Append(results, s)
         /\ start' = region.start
         /\ rendered' = Append(rendered, region)
  /\ UNCHANGED <<text, data0, api, lastIndex, pc, directives, stack, regions,
                 error, calls, trace>>

\* Render, were a region rendered as soon as the resolver has completed it
RenderWhileResolving ==
  /\ pc \in {"resolve", "render"}
  /\ Len(rendered) < Len(regions)
  /\ LET region == regions[Len(rendered) + 1]
     IN  /\ \E s \in Renderings(region) :
               /\ r' = r \o Substring(text, start, region.start)
                         \o ensureStringStartsWithNewline(ensureStringEndsWithNewline(s))
               /\ results' = Append(results, s)
         /\ start' = region.end
         /\ rendered' = Append(rendered, region)
  /\ UNCHANGED <<text, data0, api, lastIndex, pc, directives, stack, regions,
                 error, calls, trace>>

\* one iteration of the for loop: cb(region) is spliced in
Render ==
  /\ pc = "render"
  /\ Len(rendered) < Len(regions)
  /\ LET region == regions[Len(rendered) + 1]
     IN  /\ \E s \in Renderings(region) :
               /\ r' = r \o Substring(text, start, region.start)
                         \o ensureStringStartsWithNewline(ensureStringEndsWithNewline(s))
               /\ results' = Append(results, s)
         /\ start' = region.end
         /\ rendered' = Append(rendered, region)
  /\ UNCHANGED <<text, data0, api, lastIndex, pc, directives, stack, regions,
                 error, calls, trace>>

\* return r += text.substring(start)
InjectReturn ==
  /\ pc = "render"
  /\ Len(rendered) = Len(regions)
  /\ r' = r \o Substring(text, start, Len(text))
  /\ pc' = "returned"
  /\ UNCHANGED <<text, data0, api, lastIndex, directives, stack, regions,
                 error, start, rendered, results, calls, trace>>

-----------------------------------------------------------------------------
(* Texts *)

RECURSIVE Join(_)
\* the parts of a text, joined by line feeds
Join(ls) ==
  IF ls = <<>> THEN <<>>
  ELSE IF Len(ls) = 1 THEN ls[1]
  ELSE ls[1] \o <<LF>> \o Join(Tail(ls))

\* the texts of at most n parts, each part one or more whole lines
TextsOf(L, n) == {Join(ls) : ls \in UNION {[1..k -> L] : k \in 0..n}}

PartBegin == <<"/", "/", " ", "i", ":", "b", "e", "g", "i", "n">>
PartEnd == <<"/", "/", " ", "i", ":", "e", "n", "d">>
PartAssign == <<"/", "/", " ", "i", ":", "a", "s", "s", "i", "g", "n", "(", "{", "\"", "a", "\"", ":", "{", "\"", "x", "\"", ":", "1", "}", "}", ")">>
PartMerge == <<"/", "/", " ", "i", ":", "m", "e", "r", "g", "e", "(", "{", "\"", "a", "\"", ":", "{", "\"", "y", "\"", ":", "2", "}", "}", ")">>
\* an Emit line alone, indented by a space
PartEmit == <<" ", "/", "/", " ", "i", ":", "e", "m", "i", "t", "(", "1", ")">>
\* an Emit line indented by a tab, a line of content, and the closing End line
PartRegion == <<TAB, "/", "/", " ", "i", ":", "e", "m", "i", "t", "(", ")", LF, "y", LF, "/", "/", " ", "i", ":", "e", "n", "d">>

\* data a caller may pass
DataGiven == JObj((<<"a">> :> JObj((<<"y">> :> JNum(0)))))

MaxParts == 4

Parts == {PartBegin, PartEnd, PartAssign, PartMerge, PartEmit, PartRegion}

StartCall(t, d, a) ==
  /\ text = t
  /\ data0 = d
  /\ api = a
  /\ pc = "tokenize"
  /\ directives = <<>>
  /\ stack = <<>>
  /\ regions = <<>>
  /\ error = NoError
  /\ r = <<>>
  /\ start = 0
  /\ rendered = <<>>
  /\ results = <<>>
  /\ trace = <<>>

Init ==
  /\ lastIndex = 0
  /\ calls = 1
  /\ \E t \in TextsOf(Parts, MaxParts), d \in {EmptyObject, DataGiven} :
       StartCall(t, d, "extractRegions")

Resolve ==
  \/ ScopeBegin \/ ScopeEnd \/ ScopeAssign \/ ScopeMerge \/ ScopeEmit
  \/ ScopeUnclosed \/ ScopeReturn
  \/ EmitEnd \/ EmitOther \/ EmitExhausted

Next == extractDirectives \/ Resolve

Spec == Init /\ [][Next]_vars

-----------------------------------------------------------------------------
(* inject on a text *)

MaxInjectParts == 3

InitInject ==
  /\ lastIndex = 0
  /\ calls = 1
  /\ \E t \in TextsOf(Parts, MaxInjectParts), d \in {EmptyObject, DataGiven} :
       StartCall(t, d, "inject")

NextInject == extractDirectives \/ Resolve \/ Render \/ InjectReturn

SpecInject == InitInject /\ [][NextInject]_vars

-----------------------------------------------------------------------------
(* Several calls of extractRegions with one matcher *)

\* a directive line the parser rejects
PartInvalid == <<"/", "/", " ", "i", ":", "x">>

MaxReuseParts == 2
MaxCalls == 2

ReuseParts == {PartBegin, PartEnd, PartAssign, PartMerge, PartEmit, PartInvalid}

InitReuse ==
  /\ lastIndex = 0
  /\ calls = 1
  /\ \E t \in TextsOf(ReuseParts, MaxReuseParts) :
       StartCall(t, EmptyObject, "extractRegions")

\* the caller calls extractRegions again with the matcher it already has
CallAgain ==
  /\ pc \in {"returned", "thrown"}
  /\ calls < MaxCalls
  /\ calls' = calls + 1
  /\ lastIndex' = lastIndex
  /\ \E t \in TextsOf(ReuseParts, MaxReuseParts) :
       /\ text' = t
       /\ data0' = EmptyObject
       /\ api' = "extractRegions"
       /\ pc' = "tokenize"
       /\ directives' = <<>>
       /\ stack' = <<>>
       /\ regions' = <<>>
       /\ error' = NoError
       /\ r' = <<>>
       /\ start' = 0
       /\ rendered' = <<>>
       /\ results' = <<>>
       /\ trace' = <<>>

NextReuse == extractDirectives \/ Resolve \/ CallAgain

SpecReuse == InitReuse /\ [][NextReuse]_vars

-----------------------------------------------------------------------------
(* The tokenizer and the parser on directive lines of every form *)

\* "// i:" before a directive body
DirectiveLine(body) == <<"/", "/", " ", "i", ":">> \o body

Bodies ==
  { <<"b", "e", "g", "i", "n">>,
    <<"e", "n", "d">>,
    <<"a", "s", "s", "i", "g", "n", "(", "{", "\"", "a", "\"", ":", "1", "}", ")">>,
    <<"m", "e", "r", "g", "e", "(", "{", "\"", "a", "\"", ":", "{", "\"", "b", "\"", ":", "2", "}", "}", ")">>,
    <<"e", "m", "i", "t", "(", ")">>,
    <<"e", "m", "i", "t", "(", "1", ",", "\"", "s", "\"", ")">>,
    <<"a", "s", "s", "i", "g", "n", "(", "[", "1", "]", ")">>,
    <<"m", "e", "r", "g", "e", "(", "[", "]", ")">>,
    <<"a", "s", "s", "i", "g", "n", "(", "n", "u", "l", "l", ")">>,
    <<"a", "s", "s", "i", "g", "n", "(", "1", ")">>,
    <<"m", "e", "r", "g", "e", "(", "\"", "s", "\"", ")">>,
    <<"a", "s", "s", "i", "g", "n", "(", "t", "r", "u", "e", ")">>,
    <<"a", "s", "s", "i", "g", "n", "(", "{", ")">>,
    <<"a", "s", "s", "i", "g", "n", "(", ")">>,
    <<"b", "e", "g", "i", "n", "(", ")">>,
    <<"e", "n", "d", "(", "1", ")">>,
    <<"a", "s", "s", "i", "g", "n">>,
    <<"m", "e", "r", "g", "e">>,
    <<"e", "m", "i", "t">>,
    <<"e", "m", "i", "t", "(", "1">>,
    <<"e", "m", "i", "t", "(", "1", ",", ")">>,
    <<"f", "o", "o">>,
    <<"f", "o", "o", "(", "1", ")">>,
    <<"e", "n", "d", " ">>,
    <<"e", "m", "i", "t", "(", "1", ")", " ", "x">> }

MaxParseLines == 2

InitParse ==
  /\ lastIndex = 0
  /\ calls = 1
  /\ \E t \in TextsOf({DirectiveLine(b) : b \in Bodies}, MaxParseLines) :
       StartCall(t, EmptyObject, "extractRegions")

NextParse == extractDirectives

SpecParse == InitParse /\ [][NextParse]_vars

-----------------------------------------------------------------------------
(* inject on texts of each line-ending convention *)

\* the line endings of a text: LF, CR LF, CR
Newlines == {<<LF>>, <<CR, LF>>, <<CR>>}

RECURSIVE JoinWith(_, _)
\* the lines ls, joined by the line ending nl
JoinWith(ls, nl) ==
  IF ls = <<>> THEN <<>>
  ELSE IF Len(ls) = 1 THEN ls[1]
  ELSE ls[1] \o nl \o JoinWith(Tail(ls), nl)

RECURSIVE Flatten(_)
Flatten(ps) == IF ps = <<>> THEN <<>> ELSE Head(ps) \o Flatten(Tail(ps))

\* parts as lists of lines; the last is a whole region: an Emit line indented
\* by a tab, a line of content, the closing End line
LineParts ==
  { <<PartBegin>>, <<PartEnd>>, <<PartAssign>>, <<PartMerge>>, <<PartEmit>>,
    <<<<TAB, "/", "/", " ", "i", ":", "e", "m", "i", "t", "(", ")">>, <<"y">>, PartEnd>> }

MaxNewlineParts == 3

InitNewlines ==
  /\ lastIndex = 0
  /\ calls = 1
  /\ \E nl \in Newlines, k \in 0..MaxNewlineParts :
       \E ps \in [1..k -> LineParts] :
         StartCall(JoinWith(Flatten(ps), nl), EmptyObject, "inject")

NextNewlines == extractDirectives \/ Resolve \/ Render \/ InjectReturn

SpecNewlines == InitNewlines /\ [][NextNewlines]_vars

-----------------------------------------------------------------------------
(* One call on texts with directive lines that do not parse among the others *)

MaxOrderParts == 3

InitOrder ==
  /\ lastIndex = 0
  /\ calls = 1
  /\ \E t \in TextsOf(ReuseParts, MaxOrderParts) :
       StartCall(t, EmptyObject, "extractRegions")

NextOrder == extractDirectives \/ Resolve

SpecOrder == InitOrder /\ [][NextOrder]_vars

-----------------------------------------------------------------------------
(* The resolver on the directive list of a text, run on: synchronous code
   takes its next step whenever it has one *)

\* the list extractDirectives returns for text t when every body parses: its
\* while loop from offset from on, run to the end
RECURSIVE Tokens(_, _, _)
Tokens(t, from, acc) ==
  LET m == RegExpExec(t, from)
      d == parseDirective(SubSeq(t, m.body + 1, m.end))
  IN  IF ~m.found \/ ~d.ok THEN acc
      ELSE Tokens(t, m.end,
                  Append(acc, [type |-> d.type, arg |-> d.arg,
                               padding |-> SubSeq(t, m.index + 1, m.comment),
                               start |-> m.index, end |-> m.end]))

MaxLiveParts == 3

\* extractRegions at its call of enterScope(text, regions, directives, 0, 0, data)
InitLive ==
  /\ lastIndex = 0
  /\ calls = 1
  /\ \E t \in TextsOf(Parts, MaxLiveParts) :
       /\ text = t
       /\ directives = Tokens(t, 0, <<>>)
  /\ data0 = EmptyObject
  /\ api = "extractRegions"
  /\ pc = "resolve"
  /\ stack = <<ScopeFrame(0, 0, EmptyObject)>>
  /\ regions = <<>>
  /\ error = NoError
  /\ r = <<>>
  /\ start = 0
  /\ rendered = <<>>
  /\ results = <<>>
  /\ trace = <<>>

NextLive == Resolve

SpecLive == InitLive /\ [][NextLive]_vars /\ WF_vars(NextLive)

-----------------------------------------------------------------------------
(* Assign and Merge directives at the root, on data of several shapes *)

DataBodies ==
  { <<"a", "s", "s", "i", "g", "n", "(", "{", "\"", "a", "\"", ":", "1", "}", ")">>,
    <<"a", "s", "s", "i", "g", "n", "(", "{", "\"", "a", "\"", ":", "{", "\"", "b", "\"", ":", "2", "}", "}", ")">>,
    <<"m", "e", "r", "g", "e", "(", "{", "\"", "a", "\"", ":", "{", "\"", "x", "\"", ":", "1", "}", "}", ")">>,
    <<"m", "e", "r", "g", "e", "(", "{", "\"", "a", "\"", ":", "{", "\"", "y", "\"", ":", "2", "}", "}", ")">>,
    <<"m", "e", "r", "g", "e", "(", "{", "\"", "a", "\"", ":", "{", "\"", "x", "\"", ":", "5", "}", "}", ")">>,
    <<"m", "e", "r", "g", "e", "(", "{", "\"", "c", "\"", ":", "[", "1", ",", "2", "]", "}", ")">>,
    <<"m", "e", "r", "g", "e", "(", "{", "\"", "c", "\"", ":", "[", "3", "]", "}", ")">> }

MaxDataLines == 3

InitData ==
  /\ lastIndex = 0
  /\ calls = 1
  /\ \E t \in TextsOf({DirectiveLine(b) : b \in DataBodies}, MaxDataLines),
        d \in {EmptyObject, DataGiven} :
       StartCall(t, d, "extractRegions")

NextData == extractDirectives \/ ScopeAssign \/ ScopeMerge \/ ScopeReturn

SpecData == InitData /\ [][NextData]_vars

-----------------------------------------------------------------------------
(* The directive list read as a document, without the resolver's frames *)

\* an End right after an Emit closes that Emit; any other End closes a scope
IsEmitEnd(k) == k > 1 /\ directives[k].type = End /\ directives[k - 1].type = Emit
IsScopeEnd(k) == directives[k].type = End /\ ~IsEmitEnd(k)

\* the nesting depth in front of each directive (and behind the last): the
\* Begins so far less the scope-closing Ends so far
Depths ==
  [k \in 1..(Len(directives) + 1) |->
     Cardinality({i \in 1..(k - 1) : directives[i].type = Begin})
       - Cardinality({i \in 1..(k - 1) : IsScopeEnd(i)})]

\* directive j belongs to a scope that is still open in front of directive e
Visible(dep, j, e) == \A k \in (j + 1)..e : dep[k] >= dep[j]

\* d with the Assign and Merge directives among j..(e - 1) that are visible at
\* e applied in source order
RECURSIVE ApplyVisible(_, _, _, _)
ApplyVisible(dep, d, j, e) ==
  IF j >= e THEN d
  ELSE IF directives[j].type = Assign /\ Visible(dep, j, e)
    THEN ApplyVisible(dep, SpreadAssign(d, directives[j].arg), j + 1, e)
  ELSE IF directives[j].type = Merge /\ Visible(dep, j, e)
    THEN ApplyVisible(dep, lodashMerge(d, directives[j].arg), j + 1, e)
  ELSE ApplyVisible(dep, d, j + 1, e)

\* the Emit directive a region comes from: the one whose line ends where the
\* region starts
EmitOf(region) ==
  CHOOSE e \in 1..Len(directives) :
    directives[e].type = Emit /\ directives[e].end = region.start

\* a bare End at the root in front of directive i
RootEndBefore(dep, i) == \E k \in 1..(i - 1) : IsScopeEnd(k) /\ dep[k] = 0

\* Begin i has no matching End: no later End closes a scope one level down
Unmatched(dep, i) ==
  /\ directives[i].type = Begin
  /\ \A k \in (i + 1)..Len(directives) : ~(IsScopeEnd(k) /\ dep[k] = dep[i] + 1)

\* Emit e is not immediately followed by an End
EmitNotClosed(e) ==
  /\ directives[e].type = Emit
  /\ e = Len(directives) \/ directives[e + 1].type # End

Done == pc \in {"returned", "thrown"}

\* the history entry u is the resolver's enterScope reading a directive of type ty
Reads(u, ty) == trace[u].fn = "enterScope" /\ directives[trace[u].index + 1].type = ty

\* the first history entry after t that is not deeper than t, if there is one
Resumes(t, u) ==
  /\ u > t
  /\ trace[u].depth <= trace[t].depth
  /\ \A w \in (t + 1)..(u - 1) : trace[w].depth > trace[t].depth

-----------------------------------------------------------------------------
(* Claims *)

\* C1: scope isolation.  Whenever enterScope has read a Begin, the frame that
\* read it has, at the next directive it reads after the block (and while it
\* waits for the block, and once the block has returned), exactly the data it
\* had at the Begin, whatever was assigned or merged inside the block; and a
\* region takes the data of the frame that read its Emit, so a region emitted
\* after the block's End carries none of the block's data.
ScopeIsolation ==
  /\ \A t \in 1..Len(trace) :
       Reads(t, Begin) =>
         /\ \A u \in (t + 1)..Len(trace) :
              Resumes(t, u) =>
                trace[u].depth = trace[t].depth /\ trace[u].data = trace[t].data
         /\ (/\ Len(stack) >= trace[t].depth
             /\ \A u \in (t + 1)..Len(trace) : trace[u].depth > trace[t].depth)
              => stack[trace[t].depth].data = trace[t].data
  /\ \A n \in 1..Len(regions) :
       \E u \in 1..Len(trace) :
         /\ Reads(u, Emit)
         /\ trace[u].index + 1 = EmitOf(regions[n])
         /\ regions[n].data = trace[u].data

\* C1 witness: a returned call in which a block changed its own data, and the
\* first directive read after the block is an Emit whose region carries the
\* data from before the block
ScopeIsolationWitness ==
  /\ pc = "returned"
  /\ \E t \in 1..Len(trace), u \in 1..Len(trace) :
       /\ Reads(t, Begin)
       /\ Resumes(t, u)
       /\ Reads(u, Emit)
       /\ \E w \in (t + 1)..(u - 1) : trace[w].data # trace[t].data
       /\ \E n \in 1..Len(regions) :
            /\ EmitOf(regions[n]) = trace[u].index + 1
            /\ regions[n].data = trace[t].data

\* C2: every region's data is the caller's data with exactly the Assign and
\* Merge directives that precede its Emit in a scope still open at the Emit,
\* applied in source order; this stays so while later directives are read.
DataInSourceOrder ==
  \A n \in 1..Len(regions) :
    regions[n].data = ApplyVisible(Depths, data0, 1, EmitOf(regions[n]))

\* C2 witness: a returned call with caller's data, a region with a Merge and
\* then an Assign in front of its Emit, a block closed in front of it, and a
\* data directive behind it
DataInSourceOrderWitness ==
  /\ pc = "returned"
  /\ data0 = DataGiven
  /\ \E n \in 1..Len(regions) :
       LET e == EmitOf(regions[n])
       IN  /\ \E i \in 1..e, j \in 1..e :
                /\ i < j
                /\ directives[i].type = Merge
                /\ directives[j].type = Assign
                /\ Visible(Depths, i, e)
                /\ Visible(Depths, j, e)
           /\ \E k \in (e + 1)..Len(directives) : directives[k].type \in {Assign, Merge}

\* C3: the regions of a call that returned are in the order of their Emits,
\* ascending by start, with start <= end, and none overlaps the next.
RegionsSorted ==
  pc = "returned" =>
    \A n \in 1..Len(regions) :
      /\ regions[n].start <= regions[n].end
      /\ n < Len(regions) =>
           /\ regions[n].end <= regions[n + 1].start
           /\ regions[n].start < regions[n + 1].start
           /\ EmitOf(regions[n]) < EmitOf(regions[n + 1])

\* C3 witness: a returned call with three regions, one of them with content
RegionsSortedWitness ==
  /\ pc = "returned"
  /\ Len(regions) >= 3
  /\ \E n \in 1..Len(regions) : regions[n].end > regions[n].start + 1

-----------------------------------------------------------------------------

\* the leading blanks of the line that starts at offset p
LeadingBlanks(p) == SubSeq(text, p + 1, SkipBlanks(text, p))

\* C4: an Emit read by the resolver and followed by an End yields, once that
\* End is read, exactly one region: its args are the Emit's, its padding the
\* Emit line's leading blanks, its start the end of the Emit's line, its end the
\* start of the End's line; the End is read by enterEmit, one frame deeper, and
\* the scope that read the Emit reads the next directive at the same depth.
EmitYieldsRegion ==
  \A u \in 1..(Len(trace) - 1) :
    LET e == trace[u].index + 1
    IN  (/\ Reads(u, Emit)
         /\ e < Len(directives)
         /\ directives[e + 1].type = End)
        =>
        /\ trace[u + 1].index = e
        /\ trace[u + 1].fn = "enterEmit"
        /\ trace[u + 1].depth = trace[u].depth + 1
        /\ u + 2 <= Len(trace) => trace[u + 2].depth = trace[u].depth
        /\ (u + 1 = Len(trace) /\ pc = "resolve") => Len(stack) = trace[u].depth
        /\ Cardinality({n \in 1..Len(regions) :
                          regions[n].start = directives[e].end}) = 1
        /\ \A n \in 1..Len(regions) :
             regions[n].start = directives[e].end =>
               /\ regions[n].args = directives[e].arg
               /\ regions[n].padding = LeadingBlanks(directives[e].start)
               /\ regions[n].start = SkipLine(text, directives[e].start)
               /\ regions[n].end = directives[e + 1].start
               /\ regions[n].end > regions[n].start
               /\ CharAt(text, regions[n].end - 1) = LF
               /\ SkipLine(text, regions[n].end) = directives[e + 1].end

\* C4 witness: inside a Begin, an indented Emit with an argument closed by an
\* End, after which the scope reads a further directive
EmitYieldsRegionWitness ==
  \E u \in 1..(Len(trace) - 2) :
    /\ Reads(u, Emit)
    /\ trace[u].depth = 2
    /\ trace[u + 1].fn = "enterEmit"
    /\ directives[trace[u + 1].index + 1].type = End
    /\ trace[u + 2].depth = 2
    /\ \E n \in 1..Len(regions) :
         /\ regions[n].start = directives[trace[u].index + 1].end
         /\ regions[n].padding = <<SP>>
         /\ regions[n].args = JArr(<<JNum(1)>>)

-----------------------------------------------------------------------------

InvalidRegion == pc = "thrown" /\ error.kind = "InvalidRegionError"

\* C5 as stated: a finished call on a list with an unmatched Begin has failed
\* with an Invalid Region error.
UnmatchedBeginFails ==
  (Done /\ \E i \in 1..Len(directives) : Unmatched(Depths, i)) => InvalidRegion

\* C5 amended: a finished call on a list with an unmatched Begin that no bare
\* End at the root precedes has failed with an Invalid Region error.
UnmatchedReachedBeginFails ==
  (/\ Done
   /\ \E i \in 1..Len(directives) :
        Unmatched(Depths, i) /\ ~RootEndBefore(Depths, i))
    => InvalidRegion

\* C5 witness: the call failed at the end of the list inside an unmatched
\* Begin, with a region already completed
UnmatchedBeginWitness ==
  /\ InvalidRegion
  /\ error.msg = "All scopes should end with End directive."
  /\ Len(regions) > 0
  /\ \E i \in 1..Len(directives) :
       Unmatched(Depths, i) /\ ~RootEndBefore(Depths, i)

\* C6 as stated: a finished call on a list with an Emit that no End follows
\* immediately has failed with an Invalid Region error.
UnclosedEmitFails ==
  (Done /\ \E e \in 1..Len(directives) : EmitNotClosed(e)) => InvalidRegion

\* C6 amended: a finished call on a list with an Emit that no End follows
\* immediately and no bare End at the root precedes has failed with an Invalid
\* Region error.
UnclosedReachedEmitFails ==
  (/\ Done
   /\ \E e \in 1..Len(directives) :
        EmitNotClosed(e) /\ ~RootEndBefore(Depths, e))
    => InvalidRegion

\* C6 witness: the call failed on an Assign inside an emit region, with a
\* region already completed
UnclosedEmitWitness ==
  /\ InvalidRegion
  /\ error.msg = "Emit region should not contain any directives"
  /\ Len(regions) > 0
  /\ \E e \in 1..(Len(directives) - 1) :
       /\ EmitNotClosed(e)
       /\ ~RootEndBefore(Depths, e)
       /\ directives[e + 1].type = Assign

-----------------------------------------------------------------------------

\* the history entry at which enterScope read a bare End at the root
RootEndRead(u) == Reads(u, End) /\ trace[u].depth = 1

\* C7: once the root frame has read a bare End, the call has returned without
\* an error; that End is the last directive read, every directive in front of
\* it was read, and the regions are those of the Emits in front of it.
RootEndClosesTraversal ==
  \A u \in 1..Len(trace) :
    RootEndRead(u) =>
      /\ pc = "returned"
      /\ error = NoError
      /\ stack = <<>>
      /\ u = Len(trace)
      /\ \A w \in 1..u : trace[w].index = w - 1
      /\ Len(regions) =
           Cardinality({e \in 1..trace[u].index : directives[e].type = Emit})
      /\ \A n \in 1..Len(regions) :
           regions[n].end < directives[trace[u].index + 1].start

\* C7 witness: a bare root End with a region in front of it and an Emit, a
\* Begin or a data directive behind it
RootEndWitness ==
  \E u \in 1..Len(trace) :
    /\ RootEndRead(u)
    /\ Len(regions) > 0
    /\ trace[u].index + 1 < Len(directives)
    /\ directives[Len(directives)].type \in {Emit, Begin, Assign}

-----------------------------------------------------------------------------

\* C8 as stated: every region inject hands to the render callback has the data
\* extractRegions builds on the data inject was called with.
InjectRendersOnGivenData ==
  api = "inject" =>
    \A n \in 1..Len(rendered) :
      rendered[n].data = ApplyVisible(Depths, data0, 1, EmitOf(rendered[n]))

-----------------------------------------------------------------------------

\* the tokenizer run on text t by a matcher never used before: the starts of
\* the directives found, and the start of the first one that does not parse
RECURSIVE FreshScan(_, _, _)
FreshScan(t, from, acc) ==
  LET m == RegExpExec(t, from)
      d == parseDirective(SubSeq(t, m.body + 1, m.end))
  IN  IF ~m.found THEN [starts |-> acc, failedAt |-> -1]
      ELSE IF d.ok THEN FreshScan(t, m.end, Append(acc, m.index))
      ELSE [starts |-> acc, failedAt |-> m.index]

\* C9 as stated: whatever calls were made before with the same matcher, once
\* the tokenizer is through, the directives of the call are those a matcher
\* never used before finds in its text, and it fails where that one fails.
MatcherReuseIsPure ==
  pc # "tokenize" =>
    LET fresh == FreshScan(text, 0, <<>>)
    IN  /\ [i \in 1..Len(directives) |-> directives[i].start] = fresh.starts
        /\ (error.kind = "InvalidDirectiveError") = (fresh.failedAt # -1)

-----------------------------------------------------------------------------

\* C10 as stated: an Assign or Merge directive that the parser hands on holds
\* a JSON object, never an array, null or a scalar.
DataArgumentsAreObjects ==
  \A i \in 1..Len(directives) :
    directives[i].type \in {Assign, Merge} => directives[i].arg.t = "obj"

-----------------------------------------------------------------------------

\* C11 as stated: every error a call throws to its caller has a position (not
\* null) and a message prefixed with that position.
ErrorsCarryPosition ==
  pc = "thrown" => error.position # NoPosition /\ error.prefixed

-----------------------------------------------------------------------------

\* C12 as stated: when inject has returned and the callback gave back, for
\* every region, the text the region held, the output is the input text.
InjectRoundTrip ==
  (/\ api = "inject"
   /\ pc = "returned"
   /\ \A n \in 1..Len(results) :
        results[n] = Substring(text, regions[n].start, regions[n].end))
    => r = text

-----------------------------------------------------------------------------

\* s made to begin and to end with a line feed
WithNewlines(s) ==
  IF s = <<>> THEN <<LF>>
  ELSE (IF s[1] = LF THEN <<>> ELSE <<LF>>) \o s
         \o (IF s[Len(s)] = LF THEN <<>> ELSE <<LF>>)

\* where the text kept in front of region n begins: the end of the region
\* before it, or the start of the text
KeptFrom(n) == IF n = 1 THEN 0 ELSE regions[n - 1].end

\* the output for the first n regions: for each, the text kept in front of it
\* and then the callback's result with its line feeds
RECURSIVE Spliced(_)
Spliced(n) ==
  IF n = 0 THEN <<>>
  ELSE Spliced(n - 1) \o SubSeq(text, KeptFrom(n) + 1, regions[n].start)
         \o WithNewlines(results[n])

\* C13: the output of inject is, region by region, the text between the
\* regions unchanged and the callback's result with its line feeds in place of
\* the region's content, and after the last region the rest of the text.
InjectChangesOnlyRegions ==
  (api = "inject" /\ pc \in {"render", "returned"}) =>
    r = Spliced(Len(results))
          \o (IF pc = "returned"
                THEN SubSeq(text, KeptFrom(Len(regions) + 1) + 1, Len(text))
                ELSE <<>>)

\* C13 witness: inject returned after two regions, one rendered to a word and
\* one to nothing, with text after the last region
InjectChangesOnlyRegionsWitness ==
  /\ api = "inject"
  /\ pc = "returned"
  /\ Len(results) = 2
  /\ results[1] = <<"z">>
  /\ results[2] = <<>>
  /\ regions[2].end < Len(text)
  /\ r # text

-----------------------------------------------------------------------------

\* enterScope has just read a directive of type ty and is about to go on: the
\* data it had is in the history's last entry, the data it has now in its frame
JustRead(ty) ==
  /\ InScope
  /\ trace # <<>>
  /\ trace[Len(trace)].fn = "enterScope"
  /\ trace[Len(trace)].depth = Len(stack)
  /\ Top.index = trace[Len(trace)].index + 1
  /\ directives[Top.index].type = ty

DataBefore == trace[Len(trace)].data
ArgumentRead == directives[Top.index].arg

\* C14: right after an Assign with an object argument A on data D, the data has
\* the keys of D and of A and no other, every key of A with A's value, every
\* other key with D's value.
AssignIsShallowOverlay ==
  (JustRead(Assign) /\ ArgumentRead.t = "obj") =>
    LET D == DataBefore.v
        A == ArgumentRead.v
        N == Top.data.v
    IN  /\ Top.data.t = "obj"
        /\ DOMAIN N = (DOMAIN D) \cup (DOMAIN A)
        /\ \A k \in DOMAIN A : N[k] = A[k]
        /\ \A k \in (DOMAIN D) \ (DOMAIN A) : N[k] = D[k]

\* C14 witness: an Assign of {"a":{"b":2}} on data holding an object without
\* "b" under "a" and an array under "c" has just been made
AssignIsShallowOverlayWitness ==
  /\ JustRead(Assign)
  /\ ArgumentRead = JObj((<<"a">> :> JObj((<<"b">> :> JNum(2)))))
  /\ DOMAIN DataBefore.v = {<<"a">>, <<"c">>}
  /\ DataBefore.v[<<"a">>].t = "obj"
  /\ <<"b">> \notin DOMAIN DataBefore.v[<<"a">>].v
  /\ Top.data.v[<<"a">>] = JObj((<<"b">> :> JNum(2)))
  /\ Top.data.v[<<"c">>] = DataBefore.v[<<"c">>]

-----------------------------------------------------------------------------

\* n is a merged into d: an object a combines with d key by key (with nothing,
\* where d holds no object), at every depth; a scalar a takes d's place; an
\* array a takes d's place, or with byIndex combines with d index by index
\* (with nothing, where d holds no array), the elements of d past a's length
\* staying.
RECURSIVE MergedInto(_, _, _, _)
MergedInto(d, a, n, byIndex) ==
  CASE a.t = "obj" ->
         LET dv == IF d.t = "obj" THEN d.v ELSE <<>>
         IN  /\ n.t = "obj"
             /\ DOMAIN n.v = (DOMAIN dv) \cup (DOMAIN a.v)
             /\ \A k \in DOMAIN a.v :
                  MergedInto(IF k \in DOMAIN dv THEN dv[k] ELSE Undefined,
                             a.v[k], n.v[k], byIndex)
             /\ \A k \in (DOMAIN dv) \ (DOMAIN a.v) : n.v[k] = dv[k]
    [] a.t = "arr" /\ byIndex ->
         LET dv == IF d.t = "arr" THEN d.v ELSE <<>>
         IN  /\ n.t = "arr"
             /\ Len(n.v) = Max(Len(dv), Len(a.v))
             /\ \A i \in 1..Len(a.v) :
                  MergedInto(IF i <= Len(dv) THEN dv[i] ELSE Undefined,
                             a.v[i], n.v[i], byIndex)
             /\ \A i \in (Len(a.v) + 1)..Len(dv) : n.v[i] = dv[i]
    [] OTHER -> n = a

\* C15 as stated: right after a Merge with an object argument the data is the
\* argument merged into the data before, objects combined key by key at every
\* depth, arrays and scalars of the argument overwriting.
MergeOverwritesArrays ==
  (JustRead(Merge) /\ ArgumentRead.t = "obj") =>
    MergedInto(DataBefore, ArgumentRead, Top.data, FALSE)

\* C15 amended: right after a Merge with an object argument the data is the
\* argument merged into the data before, objects combined key by key at every
\* depth, scalars of the argument overwriting, and an array of the argument
\* combined index by index with an array it meets, overwriting anything else.
MergeCombinesArraysByIndex ==
  (JustRead(Merge) /\ ArgumentRead.t = "obj") =>
    MergedInto(DataBefore, ArgumentRead, Top.data, TRUE)

\* C15 witness: a Merge of {"c":[3]} on data holding [1,2] under "c" and an
\* object under "a" has just been made: "c" holds [3,2], "a" is as it was
MergeCombinesArraysWitness ==
  /\ JustRead(Merge)
  /\ ArgumentRead = JObj((<<"c">> :> JArr(<<JNum(3)>>)))
  /\ DOMAIN DataBefore.v = {<<"a">>, <<"c">>}
  /\ DataBefore.v[<<"a">>].t = "obj"
  /\ DataBefore.v[<<"c">>] = JArr(<<JNum(1), JNum(2)>>)
  /\ Top.data.v[<<"c">>] = JArr(<<JNum(3), JNum(2)>>)
  /\ Top.data.v[<<"a">>] = DataBefore.v[<<"a">>]

-----------------------------------------------------------------------------

\* the 1-based line and column of offset o: the line feeds in front of it plus
\* one, and its distance from the last of them
LineFeedsBefore(o) == {j \in 1..o : text[j] = LF}
LineOf(o) == 1 + Cardinality(LineFeedsBefore(o))
ColOf(o) ==
  o + 1 - (IF LineFeedsBefore(o) = {} THEN 0
           ELSE CHOOSE j \in LineFeedsBefore(o) : \A k \in LineFeedsBefore(o) : k <= j)
PositionOf(o) == [line |-> LineOf(o), col |-> ColOf(o)]

\* the call failed on a directive inside an emit region
FailedInsideEmit ==
  pc = "thrown" /\ error.msg = "Emit region should not contain any directives"

\* the directive enterEmit read last, and the Emit in front of it
Offender == directives[trace[Len(trace)].index + 1]
EmitBeforeOffender == directives[trace[Len(trace)].index]

\* C16: the error raised for a directive other than End after an Emit is an
\* Invalid Region error with the line and column of that directive's start,
\* which is not the position of the Emit.
EmitFaultCitesOffender ==
  FailedInsideEmit =>
    /\ error.kind = "InvalidRegionError"
    /\ EmitBeforeOffender.type = Emit
    /\ Offender.type # End
    /\ error.position = PositionOf(Offender.start)
    /\ error.position # PositionOf(EmitBeforeOffender.start)

\* C16 witness: the call failed on an Assign right after an Emit, on the third
\* line of the text or later
EmitFaultCitesOffenderWitness ==
  /\ FailedInsideEmit
  /\ Offender.type = Assign
  /\ error.position.line >= 3
  /\ error.position.col = 1

-----------------------------------------------------------------------------

\* the offsets where a directive line starts whose body does not parse
InvalidLineStarts ==
  {p \in 0..Len(text) :
     /\ MatchAt(text, p).found
     /\ ~parseDirective(SubSeq(text, MatchAt(text, p).body + 1, MatchAt(text, p).end)).ok}

FirstInvalidLine ==
  CHOOSE p \in InvalidLineStarts : \A q \in InvalidLineStarts : p <= q

\* C17: in a text with a directive line that does not parse the resolver never
\* starts, and the call, once over, has failed with the Invalid Directive error
\* at the first such line; an Invalid Region error is raised only in a text
\* whose directive lines all parse.
TokenizeBeforeResolve ==
  /\ InvalidLineStarts # {} =>
       /\ stack = <<>> /\ trace = <<>> /\ regions = <<>>
       /\ Done =>
            /\ pc = "thrown"
            /\ error.kind = "InvalidDirectiveError"
            /\ error.position = PositionOf(FirstInvalidLine)
  /\ error.kind = "InvalidRegionError" => InvalidLineStarts = {}

\* C17 witness: the call failed with an Invalid Directive error on the third
\* line, behind an Emit with an Assign inside its region
TokenizeBeforeResolveWitness ==
  /\ pc = "thrown"
  /\ error.kind = "InvalidDirectiveError"
  /\ Len(directives) = 2
  /\ directives[1].type = Emit
  /\ directives[2].type = Assign
  /\ error.position.line = 3

-----------------------------------------------------------------------------

\* the enterScope frames on the stack, and the Begin directives read so far
ScopeDepth == Cardinality({k \in 1..Len(stack) : stack[k].fn = "enterScope"})
BeginsRead ==
  Cardinality({u \in 1..Len(trace) : directives[trace[u].index + 1].type = Begin})

\* the resolver's steps so far: each reads a directive further on than every
\* one before, the running frame's cursor is past them all, and enterScope is
\* nested no deeper than the Begins read plus one (one more frame, enterEmit's,
\* may be on top)
ResolverAdvances ==
  /\ \A u, v \in 1..Len(trace) : u < v => trace[u].index < trace[v].index
  /\ \A u \in 1..Len(trace) : trace[u].index < Len(directives)
  /\ (pc = "resolve" /\ stack # <<>> /\ trace # <<>>) =>
       Top.index > trace[Len(trace)].index
  /\ \A k \in 1..Len(stack) : stack[k].index <= Len(directives)
  /\ ScopeDepth <= BeginsRead + 1
  /\ Len(stack) <= ScopeDepth + 1

\* C18: the resolver always advances and the call comes to an end, returning or
\* throwing.
ResolverTerminates == []ResolverAdvances /\ <>Done

\* C18 witness: a call is over after reading three directives, one of them in
\* an enterEmit under an enterScope one Begin deep
ResolverTerminatesWitness ==
  /\ Done
  /\ Len(trace) = 3
  /\ \E u \in 1..Len(trace) : trace[u].depth = 3 /\ trace[u].fn = "enterEmit"

-----------------------------------------------------------------------------

\* C19: inject hands a region to the callback only when the whole text has
\* been resolved without error, and then the regions one by one in their
\* order; a call that failed has rendered nothing and built no output.
InjectNoPartialResult ==
  api = "inject" =>
    /\ rendered # <<>> =>
         /\ pc \in {"render", "returned"}
         /\ stack = <<>>
         /\ error = NoError
    /\ pc = "thrown" => (rendered = <<>> /\ results = <<>> /\ r = <<>>)
    /\ Len(rendered) <= Len(regions)
    /\ rendered = SubSeq(regions, 1, Len(rendered))
    /\ Len(results) = Len(rendered)
    /\ pc = "returned" => Len(rendered) = Len(regions)

\* C19 witness: inject failed on a fault behind a region the resolver had
\* completed, and the callback was never invoked
InjectNoPartialResultWitness ==
  /\ api = "inject"
  /\ pc = "thrown"
  /\ Len(regions) > 0
  /\ rendered = <<>>

-----------------------------------------------------------------------------

\* the offsets where a directive line starts, the n-th of them, and the body of
\* the directive line at p (what follows the prefix and the colon)
LineStarts == {p \in 0..Len(text) : MatchAt(text, p).found}
NthLineStart(n) ==
  CHOOSE p \in LineStarts : Cardinality({q \in LineStarts : q < p}) = n - 1
BodyAt(p) == SubSeq(text, MatchAt(text, p).body + 1, MatchAt(text, p).end)

\* the place of the first "(" and of the last ")" in body b, 0 for none
FirstOpen(b) ==
  IF \E i \in 1..Len(b) : b[i] = "(" 
    THEN CHOOSE i \in 1..Len(b) : b[i] = "(" /\ \A j \in 1..(i - 1) : b[j] # "("
    ELSE 0
LastClose(b) ==
  IF \E i \in 1..Len(b) : b[i] = ")"
    THEN CHOOSE i \in 1..Len(b) : b[i] = ")" /\ \A j \in (i + 1)..Len(b) : b[j] # ")"
    ELSE 0

NameOf(b) == IF FirstOpen(b) = 0 THEN b ELSE SubSeq(b, 1, FirstOpen(b) - 1)
ArgumentOf(b) == SubSeq(b, FirstOpen(b) + 1, LastClose(b) - 1)

BareNames == {<<"b", "e", "g", "i", "n">>, <<"e", "n", "d">>}
ArgumentNames ==
  {<<"a", "s", "s", "i", "g", "n">>, <<"m", "e", "r", "g", "e">>, <<"e", "m", "i", "t">>}

TypeOfName(n) ==
  CASE n = <<"b", "e", "g", "i", "n">> -> Begin
    [] n = <<"e", "n", "d">> -> End
    [] n = <<"a", "s", "s", "i", "g", "n">> -> Assign
    [] n = <<"m", "e", "r", "g", "e">> -> Merge
    [] n = <<"e", "m", "i", "t">> -> Emit
    [] OTHER -> -1

\* body b has one of the forms: begin or end without a parenthesis; assign,
\* merge or emit with "(", a ")" behind it and JSON between the first "(" and
\* the last ")" (for emit, values separated by commas, or none)
InForm(b) ==
  IF FirstOpen(b) = 0 THEN b \in BareNames
  ELSE /\ NameOf(b) \in ArgumentNames
       /\ LastClose(b) > FirstOpen(b)
       /\ IF TypeOfName(NameOf(b)) = Emit
            THEN JSONparse(<<"[">> \o ArgumentOf(b) \o <<"]">>).ok
            ELSE JSONparse(ArgumentOf(b)).ok

\* b has one of the forms, and for assign and merge the JSON is an object
InFormWithObject(b) ==
  /\ InForm(b)
  /\ TypeOfName(NameOf(b)) \in {Assign, Merge} => JSONparse(ArgumentOf(b)).v.t = "obj"

\* C20: every directive the tokenizer holds comes from a line, in order, whose
\* body has one of the forms, with the type its name says; a call that failed
\* in the tokenizer failed with an Invalid Directive error on the first line not
\* turned into a directive, whose body is not of a form with an object where
\* one is due, saying invalid type when the name is none of the five; and when
\* the tokenizer is through, every line has become a directive.
ParserAcceptsForms ==
  /\ \A i \in 1..Len(directives) :
       /\ directives[i].start = NthLineStart(i)
       /\ InForm(BodyAt(directives[i].start))
       /\ directives[i].type = TypeOfName(NameOf(BodyAt(directives[i].start)))
  /\ pc = "thrown" =>
       /\ error.kind = "InvalidDirectiveError"
       /\ Len(directives) < Cardinality(LineStarts)
       /\ ~InFormWithObject(BodyAt(NthLineStart(Len(directives) + 1)))
       /\ NameOf(BodyAt(NthLineStart(Len(directives) + 1))) \notin BareNames \cup ArgumentNames
            => error.msg = "Invalid directive type"
  /\ pc = "resolve" => Len(directives) = Cardinality(LineStarts)

\* C20 witness: an emit with two values was accepted and the line behind it,
\* an unknown name with parentheses, rejected as an invalid directive type
ParserAcceptsFormsWitness ==
  /\ pc = "thrown"
  /\ Len(directives) = 1
  /\ directives[1].type = Emit
  /\ Len(directives[1].arg.v) = 2
  /\ error.msg = "Invalid directive type"
  /\ FirstOpen(BodyAt(NthLineStart(2))) > 0

====
